---- MODULE Spec2Model ----
(***************************************************************************)
(* Edge middleware that classifies each request as automated agent or      *)
(* human (src/middleware.ts).  A JavaScript string is modelled as the      *)
(* sequence of its characters, each a one-character string, so that the    *)
(* regular-expression tests and String.includes are computed character by  *)
(* character.  A header lookup result (string | null) is Null or <<s>>.    *)
(***************************************************************************)
EXTENDS Integers, Sequences, FiniteSets, TLC

\* Number of requests the handler serves in one behaviour of MwSpec.
MaxRequests == 2

\* Number of signal headers of a request that are present with an empty
\* value.
MaxEmptyHeaders == 1

----------------------------------------------------------------------------
\* Configuration tables

\* Object.entries(KNOWN_AGENTS): insertion order; a pattern is the sequence
\* of its literal alternatives (all patterns carry the i flag).
KNOWN_AGENTS ==
  <<
    [name |-> "GPTBot", pattern |-> <<
       <<"G", "P", "T", "B", "o", "t">>
     >>],
    [name |-> "ChatGPT-User", pattern |-> <<
       <<"C", "h", "a", "t", "G", "P", "T", "-", "U", "s", "e", "r">>
     >>],
    [name |-> "OAI-SearchBot", pattern |-> <<
       <<"O", "A", "I", "-", "S", "e", "a", "r", "c", "h", "B", "o", "t">>
     >>],
    [name |-> "ClaudeBot", pattern |-> <<
       <<"C", "l", "a", "u", "d", "e", "B", "o", "t">>,
       <<"C", "l", "a", "u", "d", "e", "-", "W", "e", "b">>
     >>],
    [name |-> "Google-Extended", pattern |-> <<
       <<"G", "o", "o", "g", "l", "e", "-", "E", "x", "t", "e", "n", "d",
         "e", "d">>
     >>],
    [name |-> "Gemini-Deep-Research", pattern |-> <<
       <<"G", "e", "m", "i", "n", "i", "-", "D", "e", "e", "p", "-", "R",
         "e", "s", "e", "a", "r", "c", "h">>
     >>],
    [name |-> "GoogleVertexBot", pattern |-> <<
       <<"G", "o", "o", "g", "l", "e", "-", "C", "l", "o", "u", "d", "V",
         "e", "r", "t", "e", "x", "B", "o", "t">>
     >>],
    [name |-> "GeminiBot", pattern |-> <<
       <<"G", "e", "m", "i", "n", "i", "i", "O", "S">>,
       <<"G", "e", "m", "i", "n", "i", "/">>
     >>],
    [name |-> "PerplexityBot", pattern |-> <<
       <<"P", "e", "r", "p", "l", "e", "x", "i", "t", "y", "B", "o", "t">>
     >>],
    [name |-> "ByteSpider", pattern |-> <<
       <<"B", "y", "t", "e", "s", "p", "i", "d", "e", "r">>
     >>],
    [name |-> "FacebookBot", pattern |-> <<
       <<"F", "a", "c", "e", "b", "o", "o", "k", "B", "o", "t">>
     >>],
    [name |-> "Meta-ExternalAgent", pattern |-> <<
       <<"M", "e", "t", "a", "-", "E", "x", "t", "e", "r", "n", "a", "l",
         "A", "g", "e", "n", "t">>
     >>],
    [name |-> "Applebot", pattern |-> <<
       <<"A", "p", "p", "l", "e", "b", "o", "t">>
     >>],
    [name |-> "Amazonbot", pattern |-> <<
       <<"A", "m", "a", "z", "o", "n", "b", "o", "t">>
     >>],
    [name |-> "YouBot", pattern |-> <<
       <<"Y", "o", "u", "B", "o", "t">>
     >>],
    [name |-> "DuckAssistant", pattern |-> <<
       <<"D", "u", "c", "k", "A", "s", "s", "i", "s", "t", "a", "n", "t">>,
       <<"D", "u", "c", "k", "A", "s", "s", "i", "s", "t", "B", "o", "t">>
     >>]
  >>


CONFIDENCE ==
  [SERVER_UA |-> 95, PATTERN |-> 40, EXTRA_LAYER_BONUS |-> 5,
   AGENT_THRESHOLD |-> 50]

----------------------------------------------------------------------------
\* Strings and header lookups

EmptyString == <<>>

TEXT_HTML == <<"t", "e", "x", "t", "/", "h", "t", "m", "l">>
WILDCARD == <<"*", "/", "*">>
AcceptBrowser == <<"t", "e", "x", "t", "/", "h", "t", "m", "l", ",", "a",
    "p", "p", "l", "i", "c", "a", "t", "i", "o", "n", "/", "x", "h", "t",
    "m", "l", "+", "x", "m", "l">>
AcceptJson == <<"a", "p", "p", "l", "i", "c", "a", "t", "i", "o", "n", "/",
    "j", "s", "o", "n">>
AcceptUpperHtml == <<"T", "E", "X", "T", "/", "H", "T", "M", "L">>

Null == <<>>

\* request.headers.get(name): Null when the header is absent, <<s>> when it
\* is present with value s (s may be the empty string).
HeadersGet(request, name) == request[name]

\* x ?? d
Coalesce(x, d) == IF x = Null THEN d ELSE x[1]

\* !x for x : string | null -- null and the empty string are falsy.
Not(x) == x = Null \/ x[1] = EmptyString

UpperCase ==
  <<"A", "B", "C", "D", "E", "F", "G", "H", "I", "J", "K", "L", "M",
    "N", "O", "P", "Q", "R", "S", "T", "U", "V", "W", "X", "Y", "Z">>

LowerCase ==
  <<"a", "b", "c", "d", "e", "f", "g", "h", "i", "j", "k", "l", "m",
    "n", "o", "p", "q", "r", "s", "t", "u", "v", "w", "x", "y", "z">>

\* The upper-case form of each lower-case ASCII letter.
ToUpper == [c \in {LowerCase[k] : k \in 1..26} |->
              UpperCase[CHOOSE k \in 1..26 : LowerCase[k] = c]]

\* Case folding of one character under the i flag: ASCII letters fold to
\* upper case, every other character of the inputs stands for itself.
Canonicalize(c) == IF c \in DOMAIN ToUpper THEN ToUpper[c] ELSE c

\* s.includes(t): t occurs in s as a contiguous run, case-sensitively.
Includes(s, t) ==
  \E k \in 1..(Len(s) - Len(t) + 1) :
    \A j \in 1..Len(t) : s[k + j - 1] = t[j]

\* One literal alternative of a pattern found somewhere in s, ignoring case.
MatchesLiteral(s, t) ==
  \E k \in 1..(Len(s) - Len(t) + 1) :
    \A j \in 1..Len(t) : Canonicalize(s[k + j - 1]) = Canonicalize(t[j])

\* pattern.test(s) for an unanchored alternation of literals with the i flag.
RegExpTest(pattern, s) ==
  \E a \in 1..Len(pattern) : MatchesLiteral(s, pattern[a])

MathMin(a, b) == IF a <= b THEN a ELSE b

RECURSIVE MaxScoreFrom(_, _)
MaxScoreFrom(layers, k) ==
  IF k = Len(layers) THEN layers[k].score
  ELSE LET rest == MaxScoreFrom(layers, k + 1)
       IN  IF layers[k].score >= rest THEN layers[k].score ELSE rest

\* Math.max(...layers.map((l) => l.score)) for a non-empty layer list.
MathMaxScore(layers) == MaxScoreFrom(layers, 1)

----------------------------------------------------------------------------
\* Layer 3: analyzePatterns

RefererRule(request) ==
  IF Not(HeadersGet(request, "referer")) THEN 10 ELSE 0

\* the cookie signal weighted like the accept-language signal
CookieRuleFifteen(request) ==
  IF Not(HeadersGet(request, "cookie")) THEN 15 ELSE 0

CookieRule(request) ==
  IF Not(HeadersGet(request, "cookie")) THEN 10 ELSE 0

AcceptLanguageRule(request) ==
  IF Not(HeadersGet(request, "accept-language")) THEN 15 ELSE 0

\* if (!accept || accept === '*/*')
AcceptWildcardFires(accept) == accept = EmptyString \/ accept = WILDCARD

\* else if (!accept.includes('text/html')), written as one `if` (both
\* accept branches then fire for an absent or wildcard accept header)
AcceptNoHtmlFiresNoElse(accept) == ~Includes(accept, TEXT_HTML)

\* else if (!accept.includes('text/html'))
AcceptNoHtmlFires(accept) ==
  ~AcceptWildcardFires(accept) /\ ~Includes(accept, TEXT_HTML)

AcceptRule(request) ==
  LET accept == Coalesce(HeadersGet(request, "accept"), EmptyString)
  IN  (IF AcceptWildcardFires(accept) THEN 10 ELSE 0)
      + (IF AcceptNoHtmlFires(accept) THEN 10 ELSE 0)

SecFetchModeRule(request) ==
  IF Not(HeadersGet(request, "sec-fetch-mode")) THEN 10 ELSE 0

SecFetchSiteRule(request) ==
  IF Not(HeadersGet(request, "sec-fetch-site")) THEN 5 ELSE 0

analyzePatterns(request) ==
  LET s0 == 0
      s1 == s0 + RefererRule(request)
      s2 == s1 + CookieRule(request)
      s3 == s2 + AcceptLanguageRule(request)
      s4 == s3 + AcceptRule(request)
      s5 == s4 + SecFetchModeRule(request)
      s6 == s5 + SecFetchSiteRule(request)
  IN  s6

----------------------------------------------------------------------------
\* Layer 1 and the combination: detectAgent

NoLayers == <<>>

\* The loop of detectAgent run to the end of the table without `break`:
\* one "ua" layer per matching entry, the last match names the agent.
RECURSIVE MatchAllFrom(_, _, _)
MatchAllFrom(ua, k, acc) ==
  IF k > Len(KNOWN_AGENTS) THEN acc
  ELSE IF RegExpTest(KNOWN_AGENTS[k].pattern, ua)
       THEN MatchAllFrom(ua, k + 1,
              [layers |-> Append(acc.layers,
                                 [name |-> "ua",
                                  score |-> CONFIDENCE.SERVER_UA]),
               agentName |-> KNOWN_AGENTS[k].name])
       ELSE MatchAllFrom(ua, k + 1, acc)

UserAgentLayerNoBreak(ua) ==
  MatchAllFrom(ua, 1, [layers |-> NoLayers, agentName |-> ""])

\* for (const [name, pattern] of Object.entries(KNOWN_AGENTS)) from entry k:
\* the first entry whose pattern matches pushes the "ua" layer, names the
\* agent and ends the loop.
RECURSIVE MatchFrom(_, _)
MatchFrom(ua, k) ==
  IF k > Len(KNOWN_AGENTS) THEN [layers |-> NoLayers, agentName |-> ""]
  ELSE IF RegExpTest(KNOWN_AGENTS[k].pattern, ua)
       THEN [layers |-> <<[name |-> "ua", score |-> CONFIDENCE.SERVER_UA]>>,
             agentName |-> KNOWN_AGENTS[k].name]
       ELSE MatchFrom(ua, k + 1)

UserAgentLayer(ua) == MatchFrom(ua, 1)

PatternQualifiesStrict(patternScore) == patternScore > CONFIDENCE.PATTERN

PatternQualifiesAlways(patternScore) == patternScore >= 0

PatternQualifiesLow(patternScore) == patternScore >= 30

\* if (patternScore >= CONFIDENCE.PATTERN)
PatternQualifies(patternScore) == patternScore >= CONFIDENCE.PATTERN

RECURSIVE SumScoreFrom(_, _)
SumScoreFrom(layers, k) ==
  IF k > Len(layers) THEN 0
  ELSE layers[k].score + SumScoreFrom(layers, k + 1)

\* the scores of the layers added up, uncapped
FinalConfidenceSum(layers) == SumScoreFrom(layers, 1)

\* the bonus granted to every layer instead of every extra layer
FinalConfidenceBonusAll(layers) ==
  MathMin(100, MathMaxScore(layers)
               + Len(layers) * CONFIDENCE.EXTRA_LAYER_BONUS)

FinalConfidence(layers) ==
  LET maxScore == MathMaxScore(layers)
      extraLayers == Len(layers) - 1
  IN  MathMin(100, maxScore + extraLayers * CONFIDENCE.EXTRA_LAYER_BONUS)

AgentDecisionPatternThreshold(finalConfidence) ==
  finalConfidence >= CONFIDENCE.PATTERN

\* isAgent: finalConfidence >= CONFIDENCE.AGENT_THRESHOLD
AgentDecision(finalConfidence) ==
  finalConfidence >= CONFIDENCE.AGENT_THRESHOLD

NoDetection ==
  [isAgent |-> FALSE, agentName |-> "", confidence |-> 0,
   layers |-> <<>>]

\* detectAgent from the point where patternScore is known.
Combine(request, patternScore) ==
  LET ua == Coalesce(HeadersGet(request, "user-agent"), EmptyString)
      l1 == UserAgentLayer(ua)
      layers ==
        IF PatternQualifies(patternScore)
        THEN Append(l1.layers, [name |-> "pattern", score |-> patternScore])
        ELSE l1.layers
  IN  IF Len(layers) = 0 THEN NoDetection
      ELSE LET finalConfidence == FinalConfidence(layers)
           IN  [isAgent |-> AgentDecision(finalConfidence),
                agentName |-> IF l1.agentName = "" THEN "unknown-pattern"
                              ELSE l1.agentName,
                confidence |-> finalConfidence,
                layers |-> [k \in 1..Len(layers) |-> layers[k].name]]

detectAgent(request) == Combine(request, analyzePatterns(request))

\* The signature-only variant: detectAgent(ua) of the older middleware.
RECURSIVE LegacyFrom(_, _)
LegacyFrom(ua, k) ==
  IF k > Len(KNOWN_AGENTS)
  THEN [isAgent |-> FALSE, agentName |-> "", confidence |-> 0]
  ELSE IF RegExpTest(KNOWN_AGENTS[k].pattern, ua)
       THEN [isAgent |-> TRUE, agentName |-> KNOWN_AGENTS[k].name,
             confidence |-> 95]
       ELSE LegacyFrom(ua, k + 1)

detectAgentLegacy(ua) == LegacyFrom(ua, 1)

NoAgent == [isAgent |-> FALSE, agentName |-> "", confidence |-> 0]

----------------------------------------------------------------------------
\* Inputs

HeaderNames ==
  {"user-agent", "referer", "cookie", "accept-language", "accept",
   "sec-fetch-mode", "sec-fetch-site"}

UserAgentStrings ==
  {
    \* GPTBot/1.0
    <<"G", "P", "T", "B", "o", "t", "/", "1", ".", "0">>,
    \* ChatGPT-User
    <<"C", "h", "a", "t", "G", "P", "T", "-", "U", "s", "e", "r">>,
    \* OAI-SearchBot/1.0
    <<"O", "A", "I", "-", "S", "e", "a", "r", "c", "h", "B", "o", "t", "/",
      "1", ".", "0">>,
    \* ClaudeBot
    <<"C", "l", "a", "u", "d", "e", "B", "o", "t">>,
    \* Claude-Web
    <<"C", "l", "a", "u", "d", "e", "-", "W", "e", "b">>,
    \* Google-Extended
    <<"G", "o", "o", "g", "l", "e", "-", "E", "x", "t", "e", "n", "d", "e",
      "d">>,
    \* Gemini-Deep-Research
    <<"G", "e", "m", "i", "n", "i", "-", "D", "e", "e", "p", "-", "R", "e",
      "s", "e", "a", "r", "c", "h">>,
    \* Google-CloudVertexBot
    <<"G", "o", "o", "g", "l", "e", "-", "C", "l", "o", "u", "d", "V", "e",
      "r", "t", "e", "x", "B", "o", "t">>,
    \* GeminiiOS
    <<"G", "e", "m", "i", "n", "i", "i", "O", "S">>,
    \* Gemini/2.0
    <<"G", "e", "m", "i", "n", "i", "/", "2", ".", "0">>,
    \* PerplexityBot
    <<"P", "e", "r", "p", "l", "e", "x", "i", "t", "y", "B", "o", "t">>,
    \* Bytespider
    <<"B", "y", "t", "e", "s", "p", "i", "d", "e", "r">>,
    \* FacebookBot
    <<"F", "a", "c", "e", "b", "o", "o", "k", "B", "o", "t">>,
    \* meta-externalagent/1.1
    <<"m", "e", "t", "a", "-", "e", "x", "t", "e", "r", "n", "a", "l", "a",
      "g", "e", "n", "t", "/", "1", ".", "1">>,
    \* Applebot
    <<"A", "p", "p", "l", "e", "b", "o", "t">>,
    \* Amazonbot
    <<"A", "m", "a", "z", "o", "n", "b", "o", "t">>,
    \* YouBot
    <<"Y", "o", "u", "B", "o", "t">>,
    \* DuckAssistant
    <<"D", "u", "c", "k", "A", "s", "s", "i", "s", "t", "a", "n", "t">>,
    \* DuckAssistBot
    <<"D", "u", "c", "k", "A", "s", "s", "i", "s", "t", "B", "o", "t">>,
    \* gptbot
    <<"g", "p", "t", "b", "o", "t">>,
    \* CLAUDEBOT
    <<"C", "L", "A", "U", "D", "E", "B", "O", "T">>,
    \* Mozilla/5.0
    <<"M", "o", "z", "i", "l", "l", "a", "/", "5", ".", "0">>,
    \* Gemini
    <<"G", "e", "m", "i", "n", "i">>,
    \* GPTBo
    <<"G", "P", "T", "B", "o">>,
    \* GoogleVertexBot
    <<"G", "o", "o", "g", "l", "e", "V", "e", "r", "t", "e", "x", "B", "o",
      "t">>,
    \* curl/8.4
    <<"c", "u", "r", "l", "/", "8", ".", "4">>,
    \* ChatGPT-User GPTBot
    <<"C", "h", "a", "t", "G", "P", "T", "-", "U", "s", "e", "r", " ", "G",
      "P", "T", "B", "o", "t">>,
    \* Applebot ClaudeBot
    <<"A", "p", "p", "l", "e", "b", "o", "t", " ", "C", "l", "a", "u", "d",
      "e", "B", "o", "t">>,
    \* YouBot Amazonbot
    <<"Y", "o", "u", "B", "o", "t", " ", "A", "m", "a", "z", "o", "n", "b",
      "o", "t">>,
    \* DuckAssistBot Bytespider
    <<"D", "u", "c", "k", "A", "s", "s", "i", "s", "t", "B", "o", "t", " ",
      "B", "y", "t", "e", "s", "p", "i", "d", "e", "r">>,
    \* Gemini-Deep-Research Gemini/
    <<"G", "e", "m", "i", "n", "i", "-", "D", "e", "e", "p", "-", "R", "e",
      "s", "e", "a", "r", "c", "h", " ", "G", "e", "m", "i", "n", "i", "/">>,
    \* Mozilla/5.0 (compatible; GPTBot/1.0)
    <<"M", "o", "z", "i", "l", "l", "a", "/", "5", ".", "0", " ", "(", "c",
      "o", "m", "p", "a", "t", "i", "b", "l", "e", ";", " ", "G", "P", "T",
      "B", "o", "t", "/", "1", ".", "0", ")">>
  }

\* user-agent: absent, present and empty, or one of the strings above
UserAgentValues == {Null, <<EmptyString>>} \cup {<<s>> : s \in UserAgentStrings}

\* referer, cookie, accept-language, sec-fetch-*: absent, empty, or set
SignalValues == {Null, <<EmptyString>>, <<<<"x">>>>}

AcceptValues ==
  {Null, <<EmptyString>>, <<WILDCARD>>, <<AcceptBrowser>>, <<AcceptJson>>,
   <<AcceptUpperHtml>>}

MakeRequest(ua, rf, ck, al, ac, fm, fs) ==
  ("user-agent" :> ua) @@ ("referer" :> rf) @@ ("cookie" :> ck)
  @@ ("accept-language" :> al) @@ ("accept" :> ac)
  @@ ("sec-fetch-mode" :> fm) @@ ("sec-fetch-site" :> fs)

SignalNames ==
  {"referer", "cookie", "accept-language", "sec-fetch-mode",
   "sec-fetch-site"}

\* The signal headers of a request: each absent, empty or set, at most
\* MaxEmptyHeaders of them empty.
SignalProfiles ==
  {p \in [SignalNames -> SignalValues] :
     Cardinality({h \in SignalNames : p[h] = <<EmptyString>>})
       <= MaxEmptyHeaders}

Requests ==
  {MakeRequest(ua, p["referer"], p["cookie"], p["accept-language"], ac,
               p["sec-fetch-mode"], p["sec-fetch-site"]) :
     ua \in UserAgentValues, p \in SignalProfiles, ac \in AcceptValues}

----------------------------------------------------------------------------
\* State

VARIABLES
  request,       \* the request being handled
  patternScore,  \* detectAgent's local patternScore
  detection,     \* the DetectionResult of the multi-layer detectAgent
  agent,         \* the result of the signature-only detectAgent
  pc,            \* position in the code applied to request
  arrived,       \* requests handed to middleware so far
  calls,         \* calls[i]: fetch() calls made by sendEvent for request i
  task,          \* task[i]: state of the telemetry promise of request i
  forwards       \* forwards[i]: next() results returned for request i

vars ==
  <<request, patternScore, detection, agent, pc, arrived, calls, task,
    forwards>>

RequestIds == 1..MaxRequests

----------------------------------------------------------------------------
\* Spec: the two classifiers applied to every request of Requests

Init ==
  /\ request \in Requests
  /\ patternScore = 0
  /\ detection = NoDetection
  /\ agent = NoAgent
  /\ pc = "start"
  /\ arrived = 0
  /\ calls = [i \in RequestIds |-> 0]
  /\ task = [i \in RequestIds |-> "none"]
  /\ forwards = [i \in RequestIds |-> 0]

\* const detection = detectAgent(request)
ApplyDetectAgent ==
  /\ pc = "start"
  /\ patternScore' = analyzePatterns(request)
  /\ detection' = detectAgent(request)
  /\ pc' = "detected"
  /\ UNCHANGED <<request, agent, arrived, calls, task, forwards>>

\* const ua = request.headers.get('user-agent') ?? '';
\* const agent = detectAgent(ua)
ApplyDetectAgentLegacy ==
  /\ pc = "detected"
  /\ agent' = detectAgentLegacy(
                Coalesce(HeadersGet(request, "user-agent"), EmptyString))
  /\ pc' = "compared"
  /\ UNCHANGED <<request, patternScore, detection, arrived, calls, task,
                 forwards>>

Next == ApplyDetectAgent \/ ApplyDetectAgentLegacy

Spec == Init /\ [][Next]_vars

----------------------------------------------------------------------------
\* MwSpec: the middleware handler and the telemetry promises it leaves behind

\* Requests of every classification outcome: no layer, pattern only below
\* and above the agent threshold, signature only, both layers.
MwRequests ==
  {MakeRequest(ua, v1, v1, v1, ac, v2, v2) :
     ua \in {Null, <<<<"G", "P", "T", "B", "o", "t">>>>},
     v1 \in {Null, <<<<"x">>>>}, ac \in {Null, <<AcceptBrowser>>},
     v2 \in {Null, <<<<"x">>>>}}

MwInit ==
  /\ request \in MwRequests
  /\ patternScore = 0
  /\ detection = NoDetection
  /\ agent = NoAgent
  /\ pc = "start"
  /\ arrived = 1
  /\ calls = [i \in RequestIds |-> 0]
  /\ task = [i \in RequestIds |-> "none"]
  /\ forwards = [i \in RequestIds |-> 0]

\* The runtime invokes middleware(request, context) for the next request
\* once the previous invocation has returned.
Arrive ==
  /\ pc = "done"
  /\ arrived < MaxRequests
  /\ request' \in MwRequests
  /\ arrived' = arrived + 1
  /\ patternScore' = 0
  /\ detection' = NoDetection
  /\ pc' = "start"
  /\ UNCHANGED <<agent, calls, task, forwards>>

\* const detection = detectAgent(request); the label is logged
MwDetect ==
  /\ pc = "start"
  /\ patternScore' = analyzePatterns(request)
  /\ detection' = detectAgent(request)
  /\ pc' = "detected"
  /\ UNCHANGED <<request, agent, arrived, calls, task, forwards>>

\* context.waitUntil(sendEvent(request, detection)): sendEvent starts the
\* fetch and returns its promise, which is handed to the runtime.
MwSendEvent ==
  /\ pc = "detected"
  /\ calls' = [calls EXCEPT ![arrived] = @ + 1]
  /\ task' = [task EXCEPT ![arrived] = "pending"]
  /\ pc' = "scheduled"
  /\ UNCHANGED <<request, patternScore, detection, agent, arrived, forwards>>

\* return next() only after the telemetry promise has resolved
CanForwardAwaiting == pc = "scheduled" /\ task[arrived] = "resolved"

\* return next() follows waitUntil with nothing in between
CanForward == pc = "scheduled"

\* return next()
MwForward ==
  /\ CanForward
  /\ forwards' = [forwards EXCEPT ![arrived] = @ + 1]
  /\ pc' = "done"
  /\ UNCHANGED <<request, patternScore, detection, agent, arrived, calls,
                 task>>

\* The fetch of request i completes; nothing is attached to the promise.
TelemetryResolve(i) ==
  /\ task[i] = "pending"
  /\ task' = [task EXCEPT ![i] = "resolved"]
  /\ UNCHANGED <<request, patternScore, detection, agent, pc, arrived,
                 calls, forwards>>

\* The fetch of request i fails; the rejection has no handler.
TelemetryReject(i) ==
  /\ task[i] = "pending"
  /\ task' = [task EXCEPT ![i] = "rejected"]
  /\ UNCHANGED <<request, patternScore, detection, agent, pc, arrived,
                 calls, forwards>>

MwStep ==
  \/ Arrive
  \/ MwDetect
  \/ MwSendEvent
  \/ MwForward
  \/ \E i \in RequestIds : TelemetryResolve(i)
  \/ \E i \in RequestIds : TelemetryReject(i)

\* The handler is synchronous code and runs to its return; nothing obliges
\* a fetch to settle or a further request to arrive.
MwSpec ==
  /\ MwInit
  /\ [][MwStep]_vars
  /\ WF_vars(MwDetect)
  /\ WF_vars(MwSendEvent)
  /\ WF_vars(MwForward)

----------------------------------------------------------------------------
\* Vocabulary of the properties

Classified == pc # "start"

\* The identification string: the User-Agent header, empty when absent.
UaText == IF request["user-agent"] = Null THEN <<>> ELSE request["user-agent"][1]

\* Table positions whose pattern matches the identification string.
MatchingEntries ==
  {k \in 1..Len(KNOWN_AGENTS) : RegExpTest(KNOWN_AGENTS[k].pattern, UaText)}

First(M) == CHOOSE k \in M : \A j \in M : k <= j

\* A header is absent when its lookup yields nothing or the empty string.
Absent(name) == request[name] = Null \/ request[name] = <<<<>>>>

AcceptText == IF request["accept"] = Null THEN <<>> ELSE request["accept"][1]

AcceptAbsentOrWildcard == AcceptText = <<>> \/ AcceptText = WILDCARD

AcceptWithoutHtml == ~AcceptAbsentOrWildcard /\ ~Includes(AcceptText, TEXT_HTML)

Weight(cond, w) == IF cond THEN w ELSE 0

\* The weight table as the specification prints it (cookie +15).
PrintedTableSum ==
  Weight(Absent("referer"), 10) + Weight(Absent("cookie"), 15)
  + Weight(Absent("accept-language"), 15)
  + Weight(AcceptAbsentOrWildcard, 10) + Weight(AcceptWithoutHtml, 10)
  + Weight(Absent("sec-fetch-mode"), 10)
  + Weight(Absent("sec-fetch-site"), 5)

\* The same table with the cookie row at +10.
AmendedTableSum ==
  Weight(Absent("referer"), 10) + Weight(Absent("cookie"), 10)
  + Weight(Absent("accept-language"), 15)
  + Weight(AcceptAbsentOrWildcard, 10) + Weight(AcceptWithoutHtml, 10)
  + Weight(Absent("sec-fetch-mode"), 10)
  + Weight(Absent("sec-fetch-site"), 5)

\* Scenario B: unknown identification string, none of the signal headers,
\* accept: */*.
ScenarioB ==
  /\ \A h \in SignalNames : request[h] = Null
  /\ request["accept"] = <<WILDCARD>>
  /\ MatchingEntries = {}

AllSignalsFire ==
  /\ \A h \in SignalNames : Absent(h)
  /\ (AcceptAbsentOrWildcard \/ AcceptWithoutHtml)

InLayers(name) == \E k \in 1..Len(detection.layers) : detection.layers[k] = name

Triple(r) ==
  [isAgent |-> r.isAgent, agentName |-> r.agentName,
   confidence |-> r.confidence]

----------------------------------------------------------------------------
\* Properties of the classifier (checked under Spec)

\* C1: for every request the confidence of the detection result lies in
\* 0..100.
C1_ConfidenceInRange ==
  Classified => detection.confidence >= 0 /\ detection.confidence <= 100

C1_Witness ==
  /\ Classified
  /\ detection.confidence = 100
  /\ patternScore = 60

\* C2: isAgent is exactly confidence >= 50; a pattern-only result with
\* confidence 40..49 is not an agent, and a result with a signature match is.
C2_DecisionThreshold ==
  Classified =>
    /\ detection.isAgent = (detection.confidence >= 50)
    /\ (detection.layers = <<"pattern">> /\ detection.confidence >= 40
        /\ detection.confidence < 50 => detection.isAgent = FALSE)
    /\ (MatchingEntries # {} => detection.isAgent = TRUE)

C2_Witness ==
  /\ Classified
  /\ detection.layers = <<"pattern">>
  /\ detection.confidence = 45
  /\ detection.isAgent = FALSE

\* C3: when the identification string matches some table entry, agentName
\* is the name of the first matching entry in table order and "ua" is the
\* first layer whatever the other headers are; an absent User-Agent is
\* read as the empty string and yields no signature layer.
C3_FirstMatchWins ==
  Classified =>
    LET M == MatchingEntries
    IN
    /\ (M # {} =>
          /\ detection.agentName = KNOWN_AGENTS[First(M)].name
          /\ Len(detection.layers) >= 1
          /\ detection.layers[1] = "ua"
          /\ \A k \in 2..Len(detection.layers) : detection.layers[k] # "ua")
    /\ (request["user-agent"] = Null =>
          /\ M = {}
          /\ ~InLayers("ua")
          /\ detection.agentName \in {"", "unknown-pattern"})

C3_Witness ==
  /\ Classified
  /\ Cardinality(MatchingEntries) >= 2
  /\ First(MatchingEntries) = 1
  /\ detection.agentName = "GPTBot"
  /\ patternScore = 0

\* C4: layers is empty exactly when no signature matched and the pattern
\* score is below 40; then confidence = 0, isAgent = false, agentName = "";
\* otherwise agentName is non-empty and confidence >= 40.
C4_EmptyLayers ==
  Classified =>
    /\ (detection.layers = <<>>) = (MatchingEntries = {} /\ patternScore < 40)
    /\ (detection.layers = <<>> =>
          /\ detection.confidence = 0
          /\ detection.isAgent = FALSE
          /\ detection.agentName = "")
    /\ (detection.layers # <<>> =>
          /\ detection.agentName # ""
          /\ detection.confidence >= 40)

C4_Witness ==
  /\ Classified
  /\ detection.layers = <<>>
  /\ patternScore = 35

\* C5: with no signature match and a pattern score of at least 40 the
\* result is the single layer "pattern", confidence is the pattern score,
\* agentName is "unknown-pattern" and isAgent is patternScore >= 50.
C5_PatternOnly ==
  Classified /\ patternScore >= 40 /\ MatchingEntries = {} =>
    /\ detection.layers = <<"pattern">>
    /\ detection.confidence = patternScore
    /\ detection.agentName = "unknown-pattern"
    /\ detection.isAgent = (patternScore >= 50)

C5_Witness ==
  /\ Classified
  /\ patternScore = 50
  /\ detection.confidence = 50
  /\ detection.isAgent = TRUE
  /\ MatchingEntries = {}

\* C6: with a signature match, confidence is
\* min(100, max(layer scores) + 5 * (layers - 1)) and only two outcomes
\* exist: pattern score below 40 gives layers <<"ua">> and confidence 95,
\* pattern score of at least 40 gives <<"ua", "pattern">> and confidence
\* 100; in both isAgent holds and agentName is the matched signature's name.
C6_SignatureOutcomes ==
  Classified =>
    LET M == MatchingEntries
        n == IF patternScore >= 40 THEN 2 ELSE 1
        top == IF patternScore >= 40 /\ patternScore > 95
               THEN patternScore ELSE 95
        rule == IF top + 5 * (n - 1) > 100 THEN 100 ELSE top + 5 * (n - 1)
    IN  M # {} =>
        /\ detection.confidence = rule
        /\ (patternScore < 40 =>
              detection.layers = <<"ua">> /\ detection.confidence = 95)
        /\ (patternScore >= 40 =>
              detection.layers = <<"ua", "pattern">>
              /\ detection.confidence = 100)
        /\ detection.isAgent = TRUE
        /\ detection.agentName = KNOWN_AGENTS[First(M)].name

C6_Witness ==
  /\ Classified
  /\ patternScore = 40
  /\ detection.layers = <<"ua", "pattern">>
  /\ detection.confidence = 100
  /\ MatchingEntries # {}

\* C7 as stated: the pattern score is the sum of the printed weight table
\* (cookie absent +15), so Scenario B scores 65 and is classified pattern
\* only with confidence 65.
C7_PrintedTable ==
  Classified =>
    /\ patternScore = PrintedTableSum
    /\ (ScenarioB =>
          /\ patternScore = 65
          /\ detection = [isAgent |-> TRUE, agentName |-> "unknown-pattern",
                          confidence |-> 65, layers |-> <<"pattern">>])

\* C7 amended: the pattern score is the sum of the weight table with the
\* cookie row at +10 (referer 10, cookie 10, accept-language 15, accept
\* absent or */* 10, accept without text/html 10, sec-fetch-mode 10,
\* sec-fetch-site 5), so Scenario B scores 60 and is classified pattern
\* only with confidence 60, isAgent true, agentName "unknown-pattern".
C7_AmendedTable ==
  Classified =>
    /\ patternScore = AmendedTableSum
    /\ (ScenarioB =>
          /\ patternScore = 60
          /\ detection = [isAgent |-> TRUE, agentName |-> "unknown-pattern",
                          confidence |-> 60, layers |-> <<"pattern">>])

C7_Witness ==
  /\ Classified
  /\ ScenarioB
  /\ patternScore = 60
  /\ detection.layers = <<"pattern">>

\* C8: the pattern score is an integer in 0..60, the accept header adds at
\* most one of its two +10 rows, and 60 is reached exactly when every
\* signal fires.
C8_ScoreRange ==
  Classified =>
    /\ patternScore \in 0..60
    /\ ~(AcceptWildcardFires(AcceptText) /\ AcceptNoHtmlFires(AcceptText))
    /\ AcceptRule(request) \in {0, 10}
    /\ (patternScore = 60) = AllSignalsFire

C8_Witness ==
  /\ Classified
  /\ patternScore = 60
  /\ AllSignalsFire
  /\ AcceptWithoutHtml

\* C10: the signature-only detectAgent returns what the multi-layer one
\* returns with the pattern score forced to 0, and the two agree on
\* isAgent, agentName and confidence whenever the real pattern score is
\* below 40; they differ only when it is at least 40.
C10_LegacyDegenerate ==
  pc = "compared" =>
    /\ agent = Triple(Combine(request, 0))
    /\ (patternScore < 40 => agent = Triple(detection))
    /\ (agent # Triple(detection) => patternScore >= 40)

C10_Witness ==
  /\ pc = "compared"
  /\ patternScore = 35
  /\ agent.isAgent = TRUE
  /\ agent = Triple(detection)

----------------------------------------------------------------------------
\* Properties of the handler (checked under MwSpec)

Handled(i) == i < arrived \/ (i = arrived /\ pc = "done")

PastSendEvent(i) == i < arrived \/ (i = arrived /\ pc \in {"scheduled", "done"})

MwForwardingInvariant ==
  /\ \A i \in RequestIds :
       /\ forwards[i] = (IF Handled(i) THEN 1 ELSE 0)
       /\ calls[i] = (IF PastSendEvent(i) THEN 1 ELSE 0)
       /\ (task[i] # "none") = PastSendEvent(i)
  /\ (pc = "scheduled" => ENABLED MwForward)

\* C9: every request is forwarded exactly once whatever its classification;
\* the forward is enabled as soon as the telemetry call is scheduled,
\* whatever becomes of that call, and so always happens; each request
\* makes exactly one telemetry call, also after a failure.
C9_AlwaysForwards ==
  /\ []MwForwardingInvariant
  /\ \A i \in RequestIds : [](arrived = i => <>Handled(i))

C9_Witness ==
  /\ arrived = 2
  /\ pc = "done"
  /\ task[1] = "rejected"
  /\ task[2] = "pending"
  /\ forwards[1] = 1
  /\ forwards[2] = 1
  /\ calls[1] = 1
  /\ detection.isAgent = FALSE

====
